---- MODULE Spec2Model ----
(***************************************************************************)
(* Model of the tick loop of src/src/simple1.rs (Map, Entity, SideEffect,  *)
(* Game, run) and of the vector primitive of src/src/math.rs.              *)
(*                                                                         *)
(* Numbers.  The program computes in f32.  The model uses fixed point:     *)
(* coordinates are integers counting tenths (0.1 is 1, 2.0 is 20) and      *)
(* health and strength are integers counting hundredths (0.25 is 25,       *)
(* 1.0 is 100).  Healths are start values minus multiples of 0.25 and     *)
(* positions are start values plus multiples of 0.1; the model computes    *)
(* them exactly and leaves the rounding of f32 out.                        *)
(*                                                                         *)
(* EntityId is the 0-based index of the program; TLA+ sequences are        *)
(* 1-based, so entity id i is element i + 1 of the sequence.               *)
(***************************************************************************)
EXTENDS Integers, Sequences, FiniteSets, TLC

VARIABLES
    map,           \* Game.map: [size, map], map the row-major cell container
    entities,      \* Game.entities
    entities0,     \* Game::update's local entities0 (the snapshot)
    side_effects,  \* Game::update's local side_effects, filled by collect()
    applied,       \* history: the side effects applied so far in this tick
    pre_reap,      \* history: the entity collection when retain() was called
    vm_calls,      \* history: the validate_move calls of this tick's decisions
    pc,            \* position of the run loop
    ticks,         \* history: number of ticks started
    start,         \* history: the entity collection the run started with
    driver         \* which tick function the loop calls

vars == <<map, entities, entities0, side_effects, applied, pre_reap,
          vm_calls, pc, ticks, start, driver>>

\* ---------------------------------------------------------------- bounds
MaxEntities == 2
MaxTicks == 4
MapSize == 2

\* ------------------------------------------------------------- math.rs
vec2(x, y) == [x |-> x, y |-> y]

Sub(a, b) == [x |-> a.x - b.x, y |-> a.y - b.y]

Abs(n) == IF n < 0 THEN -n ELSE n

\* sqrt(x*x + y*y), rounded down to a whole number of tenths.  For a whole
\* number d, length(v) < d exactly when the real length is below d.
length(v) ==
    LET s == v.x * v.x + v.y * v.y
    IN  CHOOSE r \in 0..(Abs(v.x) + Abs(v.y)) : r * r <= s /\ s < (r + 1) * (r + 1)

distance(a, b) == length(Sub(a, b))

\* ----------------------------------------------------------------- Map
MapClass == {"None", "Water", "Floor", "Wall", "ClosedDoor", "OpenDoor"}

\* Option<MapClass>: a class, or NoClass for Option::None
NoClass == "Option::None"

\* side of one grid cell, in tenths
CELL == 10

InGrid(m, pos) ==
    /\ 0 <= pos.x /\ pos.x < m.size * CELL
    /\ 0 <= pos.y /\ pos.y < m.size * CELL

\* Map::class_at has no body in the source (todo!()); this is the query the
\* specification describes: absent outside the grid, else the stored class
\* of the cell the position truncates to.
class_at(m, pos) ==
    IF InGrid(m, pos)
    THEN m.map[(pos.y \div CELL) * m.size + (pos.x \div CELL) + 1]
    ELSE NoClass

\* Map::new: Vec::with_capacity reserves room for size * size cells and
\* leaves the vector empty.
MapNew(size) == [size |-> size, map |-> <<>>]

\* mutant: only Wall and ClosedDoor deny the move
validate_move_unset_ok(m, pos) ==
    LET class == class_at(m, pos)
    IN  IF class # NoClass
        THEN IF class \in {"Wall", "ClosedDoor"} THEN FALSE ELSE TRUE
        ELSE TRUE

validate_move(m, pos) ==
    LET class == class_at(m, pos)
    IN  IF class # NoClass
        THEN IF class \in {"Wall", "ClosedDoor", "None"} THEN FALSE ELSE TRUE
        ELSE TRUE

\* -------------------------------------------------------------- Entity
EntityClass == {"Player", "Monster", "Item"}

ATTACK_DISTANCE == 20
MY_ATTACK_STRENGTH == 25
\* the example move of Entity::update: x + 0.1
MOVE_DX == 1

Attack(e0, e1, s) == [kind |-> "Attack", entity0 |-> e0, entity1 |-> e1, strength |-> s]

MapAttack(e0, p, s) == [kind |-> "MapAttack", entity0 |-> e0, map_pos |-> p, strength |-> s]

\* the indices 0 .. n-1 in ascending order (iter().enumerate())
Indices(n) == [k \in 1..n |-> k - 1]

\* mutant: the filter that leaves out my_id is missing
Targets_with_self(pos, my_id, ents) ==
    SelectSeq(Indices(Len(ents)),
              LAMBDA i : distance(pos, ents[i + 1].pos) < ATTACK_DISTANCE)

\* the i of the filtered enumeration for which the closure pushes an Attack
Targets(pos, my_id, ents) ==
    SelectSeq(Indices(Len(ents)),
              LAMBDA i : i # my_id /\ distance(pos, ents[i + 1].pos) < ATTACK_DISTANCE)

\* mutant: the Player takes the new position without asking the map
EntityUpdate_always_moves(self, my_id, ents, m) ==
    IF self.class = "Player"
    THEN LET new_pos == vec2(self.pos.x + MOVE_DX, self.pos.y)
             ok      == validate_move(m, new_pos)
             tg      == Targets(new_pos, my_id, ents)
         IN  [panic |-> FALSE,
              self |-> [self EXCEPT !.pos = new_pos],
              side_effects |-> [k \in 1..Len(tg) |-> Attack(my_id, tg[k], MY_ATTACK_STRENGTH)],
              vm |-> <<[pos |-> new_pos, result |-> ok]>>]
    ELSE [panic |-> TRUE, self |-> self, side_effects |-> <<>>, vm |-> <<>>]

\* mutant: the target id is written 1-based
EntityUpdate_one_based(self, my_id, ents, m) ==
    IF self.class = "Player"
    THEN LET new_pos == vec2(self.pos.x + MOVE_DX, self.pos.y)
             ok      == validate_move(m, new_pos)
             pos1    == IF ok THEN new_pos ELSE self.pos
             tg      == Targets(pos1, my_id, ents)
         IN  [panic |-> FALSE,
              self |-> [self EXCEPT !.pos = pos1],
              side_effects |-> [k \in 1..Len(tg) |-> Attack(my_id, tg[k] + 1, MY_ATTACK_STRENGTH)],
              vm |-> <<[pos |-> new_pos, result |-> ok]>>]
    ELSE [panic |-> TRUE, self |-> self, side_effects |-> <<>>, vm |-> <<>>]

\* mutant: the range test uses the position the Player had before its move
EntityUpdate_range_before_move(self, my_id, ents, m) ==
    IF self.class = "Player"
    THEN LET new_pos == vec2(self.pos.x + MOVE_DX, self.pos.y)
             ok      == validate_move(m, new_pos)
             pos1    == IF ok THEN new_pos ELSE self.pos
             tg      == Targets(self.pos, my_id, ents)
         IN  [panic |-> FALSE,
              self |-> [self EXCEPT !.pos = pos1],
              side_effects |-> [k \in 1..Len(tg) |-> Attack(my_id, tg[k], MY_ATTACK_STRENGTH)],
              vm |-> <<[pos |-> new_pos, result |-> ok]>>]
    ELSE [panic |-> TRUE, self |-> self, side_effects |-> <<>>, vm |-> <<>>]

\* mutant: deciding costs the Player health at once
EntityUpdate_costs_health(self, my_id, ents, m) ==
    IF self.class = "Player"
    THEN LET new_pos == vec2(self.pos.x + MOVE_DX, self.pos.y)
             ok      == validate_move(m, new_pos)
             pos1    == IF ok THEN new_pos ELSE self.pos
             tg      == Targets(pos1, my_id, ents)
         IN  [panic |-> FALSE,
              self |-> [self EXCEPT !.pos = pos1, !.health = @ - Len(tg)],
              side_effects |-> [k \in 1..Len(tg) |-> Attack(my_id, tg[k], MY_ATTACK_STRENGTH)],
              vm |-> <<[pos |-> new_pos, result |-> ok]>>]
    ELSE [panic |-> TRUE, self |-> self, side_effects |-> <<>>, vm |-> <<>>]

\* Entity::update.  Result: panic (a todo!() was reached), self (the entity
\* after the call), side_effects (the returned vector), vm (the
\* validate_move call made, for the history).
EntityUpdate(self, my_id, ents, m) ==
    IF self.class = "Player"
    THEN LET new_pos == vec2(self.pos.x + MOVE_DX, self.pos.y)
             ok      == validate_move(m, new_pos)
             pos1    == IF ok THEN new_pos ELSE self.pos
             tg      == Targets(pos1, my_id, ents)
         IN  [panic |-> FALSE,
              self |-> [self EXCEPT !.pos = pos1],
              side_effects |-> [k \in 1..Len(tg) |-> Attack(my_id, tg[k], MY_ATTACK_STRENGTH)],
              vm |-> <<[pos |-> new_pos, result |-> ok]>>]
    ELSE [panic |-> TRUE, self |-> self, side_effects |-> <<>>, vm |-> <<>>]

\* ---------------------------------------------------------------- Game
\* mutant: the strength is taken from the attacker (entity0)
apply_side_effect_on_source(ents, effect) ==
    IF effect.kind = "Attack" /\ effect.entity1 < Len(ents)
    THEN [panic |-> FALSE,
          entities |-> [ents EXCEPT ![effect.entity0 + 1].health = @ - effect.strength]]
    ELSE [panic |-> TRUE, entities |-> ents]

\* mutant: an attacker that is already dead no longer hits
apply_side_effect_dead_source(ents, effect) ==
    IF effect.kind = "Attack" /\ effect.entity1 < Len(ents)
    THEN [panic |-> FALSE,
          entities |-> IF ents[effect.entity0 + 1].health <= 0
                       THEN ents
                       ELSE [ents EXCEPT ![effect.entity1 + 1].health = @ - effect.strength]]
    ELSE [panic |-> TRUE, entities |-> ents]

\* mutant: a target that is not in the collection is skipped (get_mut)
apply_side_effect_skip_invalid(ents, effect) ==
    IF effect.kind = "Attack"
    THEN IF effect.entity1 < Len(ents)
         THEN [panic |-> FALSE,
               entities |-> [ents EXCEPT ![effect.entity1 + 1].health = @ - effect.strength]]
         ELSE [panic |-> FALSE, entities |-> ents]
    ELSE [panic |-> TRUE, entities |-> ents]

\* Game::apply_side_effect.  Result: panic (index out of bounds, or the
\* todo!() of MapAttack) and the entity collection after the call.
apply_side_effect(ents, effect) ==
    IF effect.kind = "Attack" /\ effect.entity1 < Len(ents)
    THEN [panic |-> FALSE,
          entities |-> [ents EXCEPT ![effect.entity1 + 1].health = @ - effect.strength]]
    ELSE [panic |-> TRUE, entities |-> ents]

RECURSIVE Flatten(_)
Flatten(ss) == IF ss = <<>> THEN <<>> ELSE Head(ss) \o Flatten(Tail(ss))

Reverse(ss) == [k \in 1..Len(ss) |-> ss[Len(ss) + 1 - k]]

\* mutant: the per-entity vectors are visited last to first
ApplyOrder_reversed(ss) == Flatten(Reverse(ss))

\* the order in which the nested for_each of Game::update visits the
\* collected side effects: outer per entity, inner per emitted effect
ApplyOrder(ss) == Flatten(ss)

\* mutant: the decisions read the live collection
DecisionView_live(live, snapshot) == live

\* the collection Game::update hands to e.update as `entities`: &entities0
DecisionView(live, snapshot) == snapshot

\* mutant: the kept entities come out last to first
Retain_reversed(ents) == Reverse(SelectSeq(ents, LAMBDA e : e.health <= 0))

\* self.entities.retain(|e| e.health <= 0.0)
Retain(ents) == SelectSeq(ents, LAMBDA e : e.health <= 0)

\* mutant: keeps running while any entity is left
KeepRunning_any(ents) == Len(ents) > 0

\* the value Game::update and Game::update_indexed return
KeepRunning(ents) == Len(ents) > 1

\* mutant: the test "it's not me" is missing
RECURSIVE IndexedInner_with_self(_, _, _)
IndexedInner_with_self(ents, i, ei) ==
    IF ei >= Len(ents) THEN ents
    ELSE IF distance(ents[i + 1].pos, ents[ei + 1].pos) < ATTACK_DISTANCE
         THEN IndexedInner_with_self(
                  [ents EXCEPT ![ei + 1].health = @ - MY_ATTACK_STRENGTH], i, ei + 1)
         ELSE IndexedInner_with_self(ents, i, ei + 1)

\* Game::update_indexed, the loops over i and ei with the writes in place.
RECURSIVE IndexedInner(_, _, _)
IndexedInner(ents, i, ei) ==
    IF ei >= Len(ents) THEN ents
    ELSE IF i # ei /\ distance(ents[i + 1].pos, ents[ei + 1].pos) < ATTACK_DISTANCE
         THEN IndexedInner([ents EXCEPT ![ei + 1].health = @ - MY_ATTACK_STRENGTH], i, ei + 1)
         ELSE IndexedInner(ents, i, ei + 1)

RECURSIVE IndexedOuter(_, _)
IndexedOuter(ents, i) ==
    IF i >= Len(ents) THEN [panic |-> FALSE, entities |-> ents]
    ELSE IF ents[i + 1].class = "Player"
         THEN IndexedOuter(IndexedInner(ents, i, 0), i + 1)
         ELSE [panic |-> TRUE, entities |-> ents]

\* ------------------------------------------------------- initial worlds
\* Game::new leaves an empty world; populating it is left to a loader the
\* repository does not contain.  The start states are the worlds such a
\* loader can hand over: a size x size terrain whose column 0 has one class
\* and whose other columns have another, and up to MaxEntities entities.
Layout(size, a, b) ==
    [k \in 1..(size * size) |-> IF (k - 1) % size = 0 THEN a ELSE b]

StartMaps ==
    {[size |-> MapSize, map |-> Layout(MapSize, a, b)] :
        a \in MapClass, b \in {"Floor", "Wall"}}

StartPositions == {vec2(0, 0), vec2(10, 0), vec2(19, 0)}
StartHealths == {100, 26, 25}

StartEntities ==
    [pos : StartPositions, health : StartHealths, class : {"Player"}]
    \cup [pos : {vec2(0, 0)}, health : {100}, class : {"Monster", "Item"}]

SeqsUpTo(S, n) == UNION {[1..k -> S] : k \in 0..n}

\* Game::new: the map of Map::new and no entities.  The source passes 1024
\* as the size; the model passes MapSize.
GameNew == [map |-> MapNew(MapSize), entities |-> <<>>]

\* the worlds a run starts in: the one Game::new builds, which run() uses as
\* it is, and the populated ones
StartWorlds ==
    {GameNew} \cup
    {[map |-> m, entities |-> es] :
        m \in StartMaps, es \in SeqsUpTo(StartEntities, MaxEntities)}

Init ==
    /\ \E w \in StartWorlds : map = w.map /\ entities = w.entities
    /\ entities0 = <<>>
    /\ side_effects = <<>>
    /\ applied = <<>>
    /\ pre_reap = <<>>
    /\ vm_calls = <<>>
    /\ pc = "update"
    /\ ticks = 0
    /\ start = entities
    /\ driver \in {"update", "update_indexed"}

\* ------------------------------------------------------------- actions
\* let entities0 = self.entities.clone();
Snapshot ==
    /\ pc = "update" /\ driver = "update" /\ ticks < MaxTicks
    /\ entities0' = entities
    /\ side_effects' = <<>>
    /\ applied' = <<>>
    /\ pre_reap' = <<>>
    /\ vm_calls' = <<>>
    /\ ticks' = ticks + 1
    /\ pc' = "decide"
    /\ UNCHANGED <<map, entities, start, driver>>

\* one step of the map over iter_mut().enumerate(): e.update(i, &entities0, &self.map)
Decide ==
    /\ pc = "decide" /\ Len(side_effects) < Len(entities)
    /\ LET i == Len(side_effects)
           r == EntityUpdate(entities[i + 1], i, DecisionView(entities, entities0), map)
       IN  /\ entities' = [entities EXCEPT ![i + 1] = r.self]
           /\ side_effects' = IF r.panic THEN side_effects
                              ELSE Append(side_effects, r.side_effects)
           /\ vm_calls' = vm_calls \o r.vm
           /\ pc' = IF r.panic THEN "panicked" ELSE "decide"
    /\ UNCHANGED <<map, entities0, applied, pre_reap, ticks, start, driver>>

\* .collect(): every entity has decided
Collect ==
    /\ pc = "decide" /\ Len(side_effects) = Len(entities)
    /\ pc' = "apply"
    /\ UNCHANGED <<map, entities, entities0, side_effects, applied, pre_reap,
                   vm_calls, ticks, start, driver>>

\* self.apply_side_effect(*side_effect) for the next side effect
Apply ==
    /\ pc = "apply" /\ Len(applied) < Len(ApplyOrder(side_effects))
    /\ LET effect == ApplyOrder(side_effects)[Len(applied) + 1]
           r == apply_side_effect(entities, effect)
       IN  /\ entities' = r.entities
           /\ applied' = IF r.panic THEN applied ELSE Append(applied, effect)
           /\ pc' = IF r.panic THEN "panicked" ELSE "apply"
    /\ UNCHANGED <<map, entities0, side_effects, pre_reap, vm_calls, ticks, start, driver>>

\* self.entities.retain(...)
Reap ==
    /\ pc = "apply" /\ Len(applied) = Len(ApplyOrder(side_effects))
    /\ pre_reap' = entities
    /\ entities' = Retain(entities)
    /\ pc' = "return"
    /\ UNCHANGED <<map, entities0, side_effects, applied, vm_calls, ticks, start, driver>>

\* self.entities.len() > 1, and the test of `while game.update() {}`
Return ==
    /\ pc = "return"
    /\ pc' = IF KeepRunning(entities) THEN "update" ELSE "stopped"
    /\ UNCHANGED <<map, entities, entities0, side_effects, applied, pre_reap,
                   vm_calls, ticks, start, driver>>

\* one whole call of Game::update_indexed up to its return expression
UpdateIndexed ==
    /\ pc = "update" /\ driver = "update_indexed" /\ ticks < MaxTicks
    /\ LET r == IndexedOuter(entities, 0)
       IN  /\ pre_reap' = IF r.panic THEN <<>> ELSE r.entities
           /\ entities' = IF r.panic THEN r.entities ELSE Retain(r.entities)
           /\ pc' = IF r.panic THEN "panicked" ELSE "return"
    /\ entities0' = <<>>
    /\ side_effects' = <<>>
    /\ applied' = <<>>
    /\ vm_calls' = <<>>
    /\ ticks' = ticks + 1
    /\ UNCHANGED <<map, start, driver>>

Next ==
    \/ Snapshot
    \/ Decide
    \/ Collect
    \/ Apply
    \/ Reap
    \/ Return
    \/ UpdateIndexed

Spec == Init /\ [][Next]_vars

\* ------------------------------------------- the apply phase on its own
\* Game::apply_side_effect takes any SideEffect.  To check it on the ones
\* Game::update never hands over (an EntityId kept from an earlier tick, a
\* MapAttack) the apply phase is started on a collection and one side
\* effect chosen freely.
AnySideEffects ==
    {Attack(e0, e1, MY_ATTACK_STRENGTH) : e0 \in 0..MaxEntities, e1 \in 0..MaxEntities}
    \cup {MapAttack(0, vec2(0, 0), MY_ATTACK_STRENGTH)}

InitApply ==
    /\ map = [size |-> MapSize, map |-> Layout(MapSize, "Floor", "Floor")]
    /\ entities \in SeqsUpTo(StartEntities, MaxEntities)
    /\ entities0 = entities
    /\ \E effect \in AnySideEffects : side_effects = <<<<effect>>>>
    /\ applied = <<>>
    /\ pre_reap = <<>>
    /\ vm_calls = <<>>
    /\ pc = "apply"
    /\ ticks = 1
    /\ start = entities
    /\ driver = "update"

NextApply ==
    \/ Apply
    \/ Reap
    \/ Return

SpecApply == InitApply /\ [][NextApply]_vars

\* ------------------------------------------------------------- claims
Alive(e) == e.health > 0

\* C1: when a tick has reaped, every entity whose health was <= 0 at the
\* end of the apply phase is gone from the collection and every entity
\* whose health was > 0 is still in it: the collection is the one retain()
\* was called on with exactly the entities of health <= 0 taken out.
C1_ReapRemovesDead ==
    pc = "return" => entities = SelectSeq(pre_reap, Alive)

\* the two Players of the scenario: (0,0) and (1,0), health 1.0
ScenarioStart ==
    <<[pos |-> vec2(0, 0), health |-> 100, class |-> "Player"],
      [pos |-> vec2(10, 0), health |-> 100, class |-> "Player"]>>

\* C2: a run of Game::update that starts from the two scenario Players has
\* both of them present with health 0.75 after tick 1, keeps both through
\* ticks 1 to 3, and stops only after tick 4, with no entity left.
C2_ScenarioFourTicks ==
    (driver = "update" /\ start = ScenarioStart) =>
        /\ (pc = "return" /\ ticks = 1) =>
               /\ Len(entities) = 2
               /\ \A k \in 1..2 : entities[k].health = 75
        /\ (pc = "return" /\ ticks < 4) => Len(entities) = 2
        /\ pc = "stopped" => (ticks = 4 /\ entities = <<>>)

\* C3: the loop goes on after a tick exactly when more than one entity is
\* left after that tick's reap step: in Stopped at most one entity is left,
\* the loop head is reached again only with more than one, the return
\* statement leaves the collection as the reap step left it, and Stopped
\* is never left.
C3_ContinueIffSurvivors ==
    /\ [](/\ pc = "stopped" => Len(entities) <= 1
          /\ (pc = "update" /\ ticks > 0) => Len(entities) > 1)
    /\ [][pc = "return" => /\ entities' = entities
                           /\ pc' = "update" <=> Len(entities) > 1
                           /\ pc' = "stopped" <=> Len(entities) <= 1]_vars
    /\ [][pc = "stopped" => pc' = "stopped"]_vars

\* a tick that began with two entities stopped the loop
C3_Witness ==
    pc = "stopped" /\ ticks = 1 /\ Len(pre_reap) = 2 /\ Len(entities) = 1

\* C4: a tick of Game::update over a world of two live entities in which at
\* least one entity's health drops to or below the death threshold leaves
\* at most one entity, so that the loop stops after that tick (a
\* world in which every tick is such a tick reaches Stopped with at most
\* one survivor).
C4_TwoEntityKillStops ==
    (driver = "update" /\ pc = "return" /\ Len(entities0) = 2
        /\ \A k \in 1..2 : entities0[k].health > 0
        /\ \E j \in 1..2 : pre_reap[j].health <= 0)
    => Len(entities) <= 1

\* what Entity::update returns for entity id i when every value it reads
\* is the one of the collection ents
DecisionOf(ents, i, m) == EntityUpdate(ents[i + 1], i, ents, m)

\* C5: in the decide phase the snapshot is the collection the tick began
\* with, and the side effects and the position of every entity that has
\* decided are the ones its decision yields from the start-of-tick values
\* alone, whatever the entities before it have done to their positions; an
\* entity that has not decided yet is unchanged.  So what each decision
\* yields does not depend on the order of the decisions.
C5_SnapshotIsolation ==
    pc = "decide" =>
        /\ ticks = 1 => entities0 = start
        /\ Len(entities) = Len(entities0)
        /\ \A i \in 0..(Len(entities0) - 1) :
               IF i < Len(side_effects)
               THEN /\ side_effects[i + 1] = DecisionOf(entities0, i, map).side_effects
                    /\ entities[i + 1] = DecisionOf(entities0, i, map).self
               ELSE entities[i + 1] = entities0[i + 1]

\* entity 0 has moved, and entity 1 has decided on a range test that the
\* moved position of entity 0 would have answered differently
C5_Witness ==
    /\ pc = "decide" /\ Len(side_effects) = 2
    /\ entities[1].pos # entities0[1].pos
    /\ Targets(entities[2].pos, 1, entities) # Targets(entities[2].pos, 1, entities0)

\* C6: a step that applies an Attack with a valid target takes the strength
\* from the health of entities[target] and leaves everything else as it
\* was: the other entities, the target's position and class, the number and
\* order of the entities, and the map.
C6_AttackFrame ==
    [][(pc = "apply" /\ Len(applied') = Len(applied) + 1) =>
         LET effect == applied'[Len(applied')]
             t == effect.entity1 + 1
         IN  (effect.kind = "Attack" /\ t <= Len(entities)) =>
                 /\ Len(entities') = Len(entities)
                 /\ entities'[t].health = entities[t].health - effect.strength
                 /\ entities'[t].pos = entities[t].pos
                 /\ entities'[t].class = entities[t].class
                 /\ \A k \in 1..Len(entities) : k # t => entities'[k] = entities[k]
                 /\ map' = map]_vars

\* the first Attack of a tick over two entities has been applied
C6_Witness ==
    /\ pc = "apply" /\ Len(applied) = 1 /\ Len(entities) = 2
    /\ applied[1].entity0 # applied[1].entity1
    /\ entities[applied[1].entity1 + 1].health
           = entities0[applied[1].entity1 + 1].health - MY_ATTACK_STRENGTH

\* the side effects of a tick over ents: entity 0's, then entity 1's, ...
EmittedInOrder(ents, m) ==
    Flatten([k \in 1..Len(ents) |-> DecisionOf(ents, k - 1, m).side_effects])

Walkable == {"Water", "Floor", "OpenDoor"}

\* C8: every validate_move call for a position inside the grid answered
\* true exactly when the terrain of the position's cell is Water, Floor or
\* OpenDoor, and false when it is Wall, ClosedDoor or None.
C8_ValidateMoveInGrid ==
    \A k \in 1..Len(vm_calls) :
        InGrid(map, vm_calls[k].pos) =>
            /\ class_at(map, vm_calls[k].pos) \in MapClass
            /\ vm_calls[k].result <=> class_at(map, vm_calls[k].pos) \in Walkable

\* one tick asked for an unset cell and for a Floor cell
C8_Witness ==
    \E j, k \in 1..Len(vm_calls) :
        /\ class_at(map, vm_calls[j].pos) = "None" /\ ~vm_calls[j].result
        /\ class_at(map, vm_calls[k].pos) = "Floor" /\ vm_calls[k].result

\* C9: every validate_move call for a position outside the grid found the
\* classification absent and answered false.
C9_OutOfGridIllegal ==
    \A k \in 1..Len(vm_calls) :
        ~InGrid(map, vm_calls[k].pos) =>
            /\ class_at(map, vm_calls[k].pos) = NoClass
            /\ vm_calls[k].result = FALSE

\* C10: from its decision to the reap step a Player stands on the position
\* it proposed (its own position plus the movement delta) when
\* validate_move answered true for it and on its start-of-tick position
\* when validate_move answered false; an entity that has not decided has
\* not moved; and the reap step moves no entity.
C10_BlockedMovement ==
    (driver = "update" /\ pc \in {"decide", "apply", "return"}) =>
        LET cur == IF pc = "return" THEN pre_reap ELSE entities
        IN  /\ Len(cur) = Len(entities0)
            /\ \A k \in 1..Len(entities0) :
                   LET p0 == entities0[k].pos
                       proposed == vec2(p0.x + MOVE_DX, p0.y)
                   IN  IF k <= Len(vm_calls)
                       THEN /\ vm_calls[k].pos = proposed
                            /\ cur[k].pos = IF vm_calls[k].result THEN proposed ELSE p0
                       ELSE cur[k].pos = p0
            /\ pc = "return" =>
                   \A j \in 1..Len(entities) :
                       \E k \in 1..Len(pre_reap) : entities[j] = pre_reap[k]

\* one Player was stopped by a Wall and another one moved
C10_Witness ==
    /\ pc = "apply"
    /\ \E j, k \in 1..Len(vm_calls) :
           /\ class_at(map, vm_calls[j].pos) = "Wall" /\ ~vm_calls[j].result
           /\ entities[j].pos = entities0[j].pos
           /\ vm_calls[k].result
           /\ entities[k].pos # entities0[k].pos

\* the squared distance of two positions, in squared tenths
SquaredGap(p, q) == (p.x - q.x) * (p.x - q.x) + (p.y - q.y) * (p.y - q.y)

C12_MapSizeInvariant ==
    /\ Len(map.map) = map.size * map.size
    /\ \A k \in 1..Len(map.map) : map.map[k] \in MapClass

\* the side effect the apply phase takes next
NextEffect == ApplyOrder(side_effects)[Len(applied) + 1]

InvalidTarget(effect) ==
    effect.kind = "Attack" /\ effect.entity1 >= Len(entities)

\* C13: the step that applies an Attack whose target is not an index of
\* the current collection ends in the fatal state and leaves every entity,
\* and so every health, as it was; it is not passed over.
C13_InvalidIdFatal ==
    [][(pc = "apply" /\ Len(applied) < Len(ApplyOrder(side_effects))
            /\ InvalidTarget(NextEffect))
        => (pc' = "panicked" /\ entities' = entities /\ applied' = applied)]_vars

\* the run has stopped in the fatal state on an Attack on an id that is
\* not in a collection of at least one entity
C13_Witness ==
    /\ pc = "panicked" /\ Len(entities) >= 1
    /\ Len(applied) < Len(ApplyOrder(side_effects))
    /\ InvalidTarget(NextEffect)

SameHealths(a, b) ==
    Len(a) = Len(b) /\ \A k \in 1..Len(a) : a[k].health = b[k].health

\* C14: a step of the decide phase of Game::update changes no health, no
\* class, not the map, not the snapshot and not the number of entities,
\* and the only entity it may change is the one deciding, in its position;
\* a step of Game::update that changes a health is an apply step and a
\* step that changes the membership of the collection is the reap step.
C14_DecideFrame ==
    /\ [][pc = "decide" =>
            /\ map' = map
            /\ entities0' = entities0
            /\ SameHealths(entities', entities)
            /\ \A k \in 1..Len(entities) :
                   /\ entities'[k].class = entities[k].class
                   /\ k # Len(side_effects) + 1 => entities'[k] = entities[k]]_vars
    /\ [][(driver = "update" /\ Len(entities') = Len(entities)
              /\ ~SameHealths(entities', entities))
          => (pc = "apply" /\ pc' = "apply" /\ Len(applied') = Len(applied) + 1)]_vars
    /\ [][(driver = "update" /\ Len(entities') # Len(entities))
          => (pc = "apply" /\ pc' = "return"
                 /\ Len(applied) = Len(ApplyOrder(side_effects)))]_vars

\* two Players have decided, the first has moved and has emitted an
\* Attack, and every health is still the one of the snapshot
C14_Witness ==
    /\ pc = "decide" /\ Len(side_effects) = 2
    /\ entities[1].pos # entities0[1].pos
    /\ side_effects[1] # <<>>
    /\ SameHealths(entities, entities0)

\* how many of the side effects effs are Attacks on entity id
Hits(effs, id) ==
    Cardinality({k \in 1..Len(effs) : effs[k].kind = "Attack" /\ effs[k].entity1 = id})

\* C15: no entity leaves the collection while side effects are applied,
\* and when the reap step runs every collected side effect has been
\* applied: each entity's health is then its snapshot health less 0.25 for
\* every collected Attack on it, whether or not it or its attacker was at
\* or below zero part-way through.
C15_ApplyBeforeReap ==
    /\ pc = "apply" => Len(entities) = Len(entities0)
    /\ (pc = "return" /\ driver = "update") =>
           /\ applied = ApplyOrder(side_effects)
           /\ Len(pre_reap) = Len(entities0)
           /\ \A k \in 1..Len(entities0) :
                  pre_reap[k].health
                      = entities0[k].health
                            - MY_ATTACK_STRENGTH * Hits(Flatten(side_effects), k - 1)

\* entity 1 was alive at the snapshot, fell to zero by the first Attack
\* applied, and its own Attack on entity 0 was applied after that
C15_Witness ==
    /\ pc = "return" /\ driver = "update" /\ Len(applied) = 2
    /\ applied[1].entity1 = 1 /\ applied[2].entity0 = 1
    /\ entities0[2].health > 0
    /\ entities0[2].health - MY_ATTACK_STRENGTH <= 0
    /\ pre_reap[1].health = entities0[1].health - MY_ATTACK_STRENGTH

\* C16: a tick over a collection that holds a Monster or an Item handles
\* that entity and goes on to its end; it does not abort.
C16_DispatchCompletes ==
    (\E k \in 1..Len(entities) : entities[k].class \in {"Monster", "Item"})
        => pc # "panicked"

\* where Player k (1-based) of this tick stands after its move: the
\* position it proposed if validate_move allowed it, else where it was
AfterMove(k) ==
    IF vm_calls[k].result THEN vm_calls[k].pos ELSE entities0[k].pos

\* C17: a Player attacks exactly the other entities whose start-of-tick
\* position is less than 2.0 away from the position the Player has after
\* its own move of this tick; the positions other entities have moved to
\* in this tick play no part.
C17_RangeAfterMove ==
    (pc \in {"decide", "apply"} /\ Len(vm_calls) = Len(side_effects)) =>
        \A a \in 1..Len(side_effects) :
            {side_effects[a][k].entity1 + 1 : k \in 1..Len(side_effects[a])}
                = {b \in 1..Len(entities0) :
                       /\ b # a
                       /\ SquaredGap(AfterMove(a), entities0[b].pos) < 20 * 20}

\* entity 0 attacks entity 1, and entity 1, which has moved out of range
\* of where entity 0 stood at the start of the tick, does not attack back
C17_Witness ==
    /\ pc = "apply" /\ Len(side_effects) = 2
    /\ Len(side_effects[1]) = 1 /\ side_effects[2] = <<>>
    /\ vm_calls[2].result
    /\ SquaredGap(entities0[2].pos, entities0[1].pos) < 20 * 20
    /\ SquaredGap(entities[2].pos, entities0[1].pos) >= 20 * 20

AllPlayers(ents) == \A k \in 1..Len(ents) : ents[k].class = "Player"

\* C18: in a tick of Game::update over Players only, every side effect
\* collected is an Attack whose source and target are indices of the
\* collection as it is while side effects are applied, with the target
\* another entity than the source, and the tick does not reach the fatal
\* state.
C18_IdsValidInApply ==
    (driver = "update" /\ ticks > 0 /\ AllPlayers(entities0)) =>
        /\ pc # "panicked"
        /\ pc \in {"decide", "apply"} =>
               \A a \in 1..Len(side_effects) : \A k \in 1..Len(side_effects[a]) :
                   LET effect == side_effects[a][k]
                   IN  /\ effect.kind = "Attack"
                       /\ effect.entity0 < Len(entities)
                       /\ effect.entity1 < Len(entities)
                       /\ effect.entity1 # effect.entity0

\* a tick over two Players has applied an Attack of each and has come to
\* its reap step
C18_Witness ==
    /\ driver = "update" /\ pc = "return" /\ AllPlayers(entities0)
    /\ Len(entities0) = 2 /\ Len(applied) = 2

\* s can be got from t by leaving elements out, the order kept
RECURSIVE IsSubsequence(_, _)
IsSubsequence(s, t) ==
    IF s = <<>> THEN TRUE
    ELSE IF t = <<>> THEN FALSE
    ELSE IF Head(s) = Head(t) THEN IsSubsequence(Tail(s), Tail(t))
    ELSE IsSubsequence(s, Tail(t))

\* C19: the collection a tick leaves is the collection the reap step found
\* with elements left out and the order kept; up to the reap step a tick
\* of Game::update keeps every entity at its index with its class; and no
\* step of a run makes the collection longer.
C19_SubsequenceOfBefore ==
    /\ [](pc = "return" =>
            /\ IsSubsequence(entities, pre_reap)
            /\ driver = "update" =>
                   /\ Len(pre_reap) = Len(entities0)
                   /\ \A k \in 1..Len(entities0) :
                          pre_reap[k].class = entities0[k].class)
    /\ [][Len(entities') <= Len(entities)]_vars

\* a tick kept some of its entities and removed the others
C19_Witness ==
    /\ pc = "return"
    /\ Len(entities) >= 1 /\ Len(entities) < Len(pre_reap)

\* no Player of this tick was allowed its move
NobodyMoved == \A k \in 1..Len(vm_calls) : ~vm_calls[k].result

\* C20: when a tick of Game::update over Players only, none of which could
\* move, has reaped, the collection it found at the reap step, the one it
\* leaves and the value it returns are the ones Game::update_indexed
\* yields from the collection the tick began with.
C20_IndexedEquivalent ==
    (driver = "update" /\ pc = "return" /\ AllPlayers(entities0) /\ NobodyMoved) =>
        LET r == IndexedOuter(entities0, 0)
        IN  /\ ~r.panic
            /\ pre_reap = r.entities
            /\ entities = Retain(r.entities)
            /\ KeepRunning(entities) = KeepRunning(Retain(r.entities))

\* two Players that could not move have attacked each other
C20_Witness ==
    /\ driver = "update" /\ pc = "return" /\ AllPlayers(entities0) /\ NobodyMoved
    /\ Len(entities0) = 2 /\ Len(applied) = 2

====
